---- MODULE Spec2Model ----
(***************************************************************************)
(* Model of workshops/HDA_Flowsheet_Optimization/BTHM_ideal.py: the        *)
(* property-package configuration dictionary of the Benzene-Toluene-       *)
(* Hydrogen-Methane system (ideal VLE with non-condensables).              *)
(*                                                                         *)
(* The module body runs three steps (imports, logger set-up, construction  *)
(* of the `configuration` dictionary); afterwards the only thing that      *)
(* happens to the dictionary is that a consumer subscripts it.  Python     *)
(* values are modelled as tagged records:                                  *)
(*   str    [t |-> "str",   s |-> "..."]                                   *)
(*   dict   [t |-> "dict",  items |-> key :> value @@ ...]                 *)
(*   tuple  [t |-> "tuple", elts  |-> <<...>>]                             *)
(*   list   [t |-> "list",  elts  |-> <<...>>]                             *)
(*   number [t |-> "int" or "float", m |-> mantissa, e |-> exponent],      *)
(*          standing for the decimal m * 10^e                              *)
(*   unit   [t |-> "unit", dim |-> exponent of each base dimension,        *)
(*           scale |-> power of ten relative to the SI unit]               *)
(*   an imported class, module or function, by name                        *)
(*          [t |-> "obj", name |-> ...]                                    *)
(*   None   [t |-> "None"]                                                 *)
(***************************************************************************)
EXTENDS Integers, Sequences, FiniteSets, TLC

VARIABLES pc, configuration, path, cursor

vars == <<pc, configuration, path, cursor>>

(***************************************************************************)
(* Python values                                                           *)
(***************************************************************************)
Str(s) == [t |-> "str", s |-> s]

\* A dict: its keys are Python values, like its values.
Dict(f) == [t |-> "dict", items |-> f]

\* A dict whose keys are all strings, written with the bare strings.
StrDict(f) == Dict([k \in {Str(n) : n \in DOMAIN f} |-> f[k.s]])

Tuple(s) == [t |-> "tuple", elts |-> s]

List(s) == [t |-> "list", elts |-> s]

Obj(n) == [t |-> "obj", name |-> n]

None == [t |-> "None"]

\* An integer literal n.
PyInt(n) == [t |-> "int", m |-> n, e |-> 0]

\* A float literal written with the digits d (the decimal point removed),
\* frac digits after the decimal point and the exponent exp:
\* 78.1136E-3 is PyFloat(781136, 4, -3), 562.2 is PyFloat(5622, 1, 0).
PyFloat(d, frac, exp) == [t |-> "float", m |-> d, e |-> exp - frac]

\* A name of the module namespace that no statement has bound yet.
Unbound == [t |-> "unbound"]

(***************************************************************************)
(* pyunits: a unit is the exponent of each base dimension and a decimal    *)
(* scale; *, / and ** act on units as they do in pyomo.                    *)
(***************************************************************************)
BaseDims == {"mass", "length", "time", "amount", "temperature"}

BaseUnit(b, s) ==
    [t |-> "unit", dim |-> [x \in BaseDims |-> IF x = b THEN 1 ELSE 0], scale |-> s]

UMul(a, b) ==
    [t |-> "unit", dim |-> [x \in BaseDims |-> a.dim[x] + b.dim[x]],
     scale |-> a.scale + b.scale]

UDiv(a, b) ==
    [t |-> "unit", dim |-> [x \in BaseDims |-> a.dim[x] - b.dim[x]],
     scale |-> a.scale - b.scale]

UPow(a, n) ==
    [t |-> "unit", dim |-> [x \in BaseDims |-> a.dim[x] * n], scale |-> a.scale * n]

pyunits_kg == BaseUnit("mass", 0)

pyunits_m == BaseUnit("length", 0)

pyunits_s == BaseUnit("time", 0)

pyunits_mol == BaseUnit("amount", 0)

pyunits_kmol == BaseUnit("amount", 3)

pyunits_K == BaseUnit("temperature", 0)

\* Pa = kg m^-1 s^-2
pyunits_Pa == UDiv(UDiv(pyunits_kg, pyunits_m), UPow(pyunits_s, 2))

\* J = kg m^2 s^-2
pyunits_J == UDiv(UMul(pyunits_kg, UPow(pyunits_m, 2)), UPow(pyunits_s, 2))

(***************************************************************************)
(* Names bound by the import statements                                    *)
(***************************************************************************)
Component == Obj("Component")

LiquidPhase == Obj("LiquidPhase")

VaporPhase == Obj("VaporPhase")

PT_vaporPhase == Obj("PhaseType.vaporPhase")

FpcTP == Obj("FpcTP")

Ideal == Obj("Ideal")

smooth_VLE == Obj("smooth_VLE")

IdealBubbleDew == Obj("IdealBubbleDew")

fugacity == Obj("fugacity")

Perrys == Obj("Perrys")

RPP == Obj("RPP")

NIST == Obj("NIST")

(***************************************************************************)
(* The components                                                          *)
(***************************************************************************)
\* pyunits.J/pyunits.mol/pyunits.K**n (n = 1 is written pyunits.K)
J_mol_K(n) == UDiv(UDiv(pyunits_J, pyunits_mol), UPow(pyunits_K, n))

\* Mutation: every coefficient carries the unit of the first, K**-1.
J_kmol_K_first(n) == UMul(UMul(pyunits_J, UPow(pyunits_kmol, -1)), UPow(pyunits_K, -1))

\* pyunits.J*pyunits.kmol**-1*pyunits.K**-n
J_kmol_K(n) == UMul(UMul(pyunits_J, UPow(pyunits_kmol, -1)), UPow(pyunits_K, -n))

\* pyunits.J/pyunits.mol
J_mol == UDiv(pyunits_J, pyunits_mol)

\* pyunits.kg/pyunits.mol
kg_mol == UDiv(pyunits_kg, pyunits_mol)

\* pyunits.kmol*pyunits.m**-3
kmol_m3 == UMul(pyunits_kmol, UPow(pyunits_m, -3))

benzene_dens_mol_liq_comp_coeff ==
    StrDict("1" :> Tuple(<<PyFloat(10162, 4, 0), kmol_m3>>) @@
            "2" :> Tuple(<<PyFloat(2655, 4, 0), None>>) @@
            "3" :> Tuple(<<PyFloat(56216, 2, 0), pyunits_K>>) @@
            "4" :> Tuple(<<PyFloat(28212, 5, 0), None>>))

\* Mutation: the sign of C is lost.
benzene_cp_mol_ig_comp_coeff_sign ==
    StrDict("A" :> Tuple(<<PyFloat(-3392, 3, 1), J_mol_K(1)>>) @@
            "B" :> Tuple(<<PyFloat(4739, 3, -1), J_mol_K(2)>>) @@
            "C" :> Tuple(<<PyFloat(3017, 3, -4), J_mol_K(3)>>) @@
            "D" :> Tuple(<<PyFloat(7130, 3, -8), J_mol_K(4)>>))

benzene_cp_mol_ig_comp_coeff ==
    StrDict("A" :> Tuple(<<PyFloat(-3392, 3, 1), J_mol_K(1)>>) @@
            "B" :> Tuple(<<PyFloat(4739, 3, -1), J_mol_K(2)>>) @@
            "C" :> Tuple(<<PyFloat(-3017, 3, -4), J_mol_K(3)>>) @@
            "D" :> Tuple(<<PyFloat(7130, 3, -8), J_mol_K(4)>>))

benzene_cp_mol_liq_comp_coeff ==
    StrDict("1" :> Tuple(<<PyFloat(129, 2, 5), J_kmol_K(1)>>) @@
            "2" :> Tuple(<<PyFloat(-17, 1, 2), J_kmol_K(2)>>) @@
            "3" :> Tuple(<<PyFloat(648, 2, -1), J_kmol_K(3)>>) @@
            "4" :> Tuple(<<PyInt(0), J_kmol_K(4)>>) @@
            "5" :> Tuple(<<PyInt(0), J_kmol_K(5)>>))

benzene_pressure_sat_comp_coeff ==
    StrDict("A" :> Tuple(<<PyFloat(460362, 5, 0), None>>) @@
            "B" :> Tuple(<<PyFloat(1701073, 3, 0), pyunits_K>>) @@
            "C" :> Tuple(<<PyFloat(20806, 3, 0), pyunits_K>>))

benzene_parameter_data ==
    StrDict("mw" :> Tuple(<<PyFloat(781136, 4, -3), kg_mol>>) @@
            "pressure_crit" :> Tuple(<<PyFloat(489, 1, 5), pyunits_Pa>>) @@
            "temperature_crit" :> Tuple(<<PyFloat(5622, 1, 0), pyunits_K>>) @@
            "dens_mol_liq_comp_coeff" :> benzene_dens_mol_liq_comp_coeff @@
            "cp_mol_ig_comp_coeff" :> benzene_cp_mol_ig_comp_coeff @@
            "cp_mol_liq_comp_coeff" :> benzene_cp_mol_liq_comp_coeff @@
            "enth_mol_form_liq_comp_ref" :> Tuple(<<PyFloat(-490, 1, 3), J_mol>>) @@
            "enth_mol_form_vap_comp_ref" :> Tuple(<<PyFloat(-829, 1, 3), J_mol>>) @@
            "pressure_sat_comp_coeff" :> benzene_pressure_sat_comp_coeff)

benzene ==
    StrDict("type" :> Component @@
            "dens_mol_liq_comp" :> Perrys @@
            "enth_mol_liq_comp" :> Perrys @@
            "enth_mol_ig_comp" :> RPP @@
            "pressure_sat_comp" :> NIST @@
            "phase_equilibrium_form" :> Dict(Tuple(<<Str("Vap"), Str("Liq")>>) :> fugacity) @@
            "parameter_data" :> benzene_parameter_data)

toluene_dens_mol_liq_comp_coeff ==
    StrDict("1" :> Tuple(<<PyFloat(8488, 4, 0), kmol_m3>>) @@
            "2" :> Tuple(<<PyFloat(26655, 5, 0), None>>) @@
            "3" :> Tuple(<<PyFloat(5918, 1, 0), pyunits_K>>) @@
            "4" :> Tuple(<<PyFloat(2878, 4, 0), None>>))

toluene_cp_mol_ig_comp_coeff ==
    StrDict("A" :> Tuple(<<PyFloat(-2435, 3, 1), J_mol_K(1)>>) @@
            "B" :> Tuple(<<PyFloat(5125, 3, -1), J_mol_K(2)>>) @@
            "C" :> Tuple(<<PyFloat(-2765, 3, -4), J_mol_K(3)>>) @@
            "D" :> Tuple(<<PyFloat(4911, 3, -8), J_mol_K(4)>>))

toluene_cp_mol_liq_comp_coeff ==
    StrDict("1" :> Tuple(<<PyFloat(140, 2, 5), J_kmol_K(1)>>) @@
            "2" :> Tuple(<<PyFloat(-1522, 3, 0), J_kmol_K(2)>>) @@
            "3" :> Tuple(<<PyFloat(695, 2, -1), J_kmol_K(3)>>) @@
            "4" :> Tuple(<<PyInt(0), J_kmol_K(4)>>) @@
            "5" :> Tuple(<<PyInt(0), J_kmol_K(5)>>))

toluene_pressure_sat_comp_coeff ==
    StrDict("A" :> Tuple(<<PyFloat(454436, 5, 0), None>>) @@
            "B" :> Tuple(<<PyFloat(1738123, 3, 0), pyunits_K>>) @@
            "C" :> Tuple(<<PyFloat(394, 3, 0), pyunits_K>>))

toluene_parameter_data ==
    StrDict("mw" :> Tuple(<<PyFloat(921405, 4, -3), kg_mol>>) @@
            "pressure_crit" :> Tuple(<<PyFloat(41, 0, 5), pyunits_Pa>>) @@
            "temperature_crit" :> Tuple(<<PyFloat(5918, 1, 0), pyunits_K>>) @@
            "dens_mol_liq_comp_coeff" :> toluene_dens_mol_liq_comp_coeff @@
            "cp_mol_ig_comp_coeff" :> toluene_cp_mol_ig_comp_coeff @@
            "cp_mol_liq_comp_coeff" :> toluene_cp_mol_liq_comp_coeff @@
            "enth_mol_form_liq_comp_ref" :> Tuple(<<PyFloat(-120, 1, 3), J_mol>>) @@
            "enth_mol_form_vap_comp_ref" :> Tuple(<<PyFloat(-501, 1, 3), J_mol>>) @@
            "pressure_sat_comp_coeff" :> toluene_pressure_sat_comp_coeff)

toluene ==
    StrDict("type" :> Component @@
            "dens_mol_liq_comp" :> Perrys @@
            "enth_mol_liq_comp" :> Perrys @@
            "enth_mol_ig_comp" :> RPP @@
            "pressure_sat_comp" :> NIST @@
            "phase_equilibrium_form" :> Dict(Tuple(<<Str("Vap"), Str("Liq")>>) :> fugacity) @@
            "parameter_data" :> toluene_parameter_data)

\* Mutation: the last coefficient is left out.
hydrogen_cp_mol_ig_comp_coeff_short ==
    StrDict("A" :> Tuple(<<PyFloat(2714, 3, 1), J_mol_K(1)>>) @@
            "B" :> Tuple(<<PyFloat(9274, 3, -3), J_mol_K(2)>>) @@
            "C" :> Tuple(<<PyFloat(-1381, 3, -5), J_mol_K(3)>>))

hydrogen_cp_mol_ig_comp_coeff ==
    StrDict("A" :> Tuple(<<PyFloat(2714, 3, 1), J_mol_K(1)>>) @@
            "B" :> Tuple(<<PyFloat(9274, 3, -3), J_mol_K(2)>>) @@
            "C" :> Tuple(<<PyFloat(-1381, 3, -5), J_mol_K(3)>>) @@
            "D" :> Tuple(<<PyFloat(7645, 3, -9), J_mol_K(4)>>))

hydrogen_parameter_data ==
    StrDict("mw" :> Tuple(<<PyFloat(2016, 3, -3), kg_mol>>) @@
            "pressure_crit" :> Tuple(<<PyFloat(129, 1, 5), pyunits_Pa>>) @@
            "temperature_crit" :> Tuple(<<PyFloat(330, 1, 0), pyunits_K>>) @@
            "cp_mol_ig_comp_coeff" :> hydrogen_cp_mol_ig_comp_coeff @@
            "enth_mol_form_vap_comp_ref" :> Tuple(<<PyInt(0), J_mol>>))

\* Mutation: the species is restricted to a phase type no phase has.
hydrogen_solid ==
    StrDict("type" :> Component @@
            "valid_phase_types" :> Obj("PhaseType.solidPhase") @@
            "enth_mol_ig_comp" :> RPP @@
            "parameter_data" :> hydrogen_parameter_data)

hydrogen ==
    StrDict("type" :> Component @@
            "valid_phase_types" :> PT_vaporPhase @@
            "enth_mol_ig_comp" :> RPP @@
            "parameter_data" :> hydrogen_parameter_data)

methane_cp_mol_ig_comp_coeff ==
    StrDict("A" :> Tuple(<<PyFloat(1925, 3, 1), J_mol_K(1)>>) @@
            "B" :> Tuple(<<PyFloat(5213, 3, -2), J_mol_K(2)>>) @@
            "C" :> Tuple(<<PyFloat(1197, 3, -5), J_mol_K(3)>>) @@
            "D" :> Tuple(<<PyFloat(-1132, 3, -8), J_mol_K(4)>>))

methane_parameter_data ==
    StrDict("mw" :> Tuple(<<PyFloat(16043, 3, -3), kg_mol>>) @@
            "pressure_crit" :> Tuple(<<PyFloat(46, 0, 5), pyunits_Pa>>) @@
            "temperature_crit" :> Tuple(<<PyFloat(1904, 1, 0), pyunits_K>>) @@
            "cp_mol_ig_comp_coeff" :> methane_cp_mol_ig_comp_coeff @@
            "enth_mol_form_vap_comp_ref" :> Tuple(<<PyFloat(-75, 0, 3), J_mol>>))

\* Mutation: a vapor-only species declares an equilibrium form.
methane_with_form ==
    StrDict("type" :> Component @@
            "valid_phase_types" :> PT_vaporPhase @@
            "enth_mol_ig_comp" :> RPP @@
            "phase_equilibrium_form" :> Dict(Tuple(<<Str("Vap"), Str("Liq")>>) :> fugacity) @@
            "parameter_data" :> methane_parameter_data)

methane ==
    StrDict("type" :> Component @@
            "valid_phase_types" :> PT_vaporPhase @@
            "enth_mol_ig_comp" :> RPP @@
            "parameter_data" :> methane_parameter_data)

\* Mutation: a species is left out of the registry.
components_three ==
    StrDict("benzene" :> benzene @@ "toluene" :> toluene @@ "hydrogen" :> hydrogen)

components ==
    StrDict("benzene" :> benzene @@ "toluene" :> toluene @@
            "hydrogen" :> hydrogen @@ "methane" :> methane)

(***************************************************************************)
(* Phases, base units, state definition, equilibria                        *)
(***************************************************************************)
phases ==
    StrDict("Liq" :> StrDict("type" :> LiquidPhase @@ "equation_of_state" :> Ideal) @@
            "Vap" :> StrDict("type" :> VaporPhase @@ "equation_of_state" :> Ideal))

base_units ==
    StrDict("time" :> pyunits_s @@
            "length" :> pyunits_m @@
            "mass" :> pyunits_kg @@
            "amount" :> pyunits_mol @@
            "temperature" :> pyunits_K)

state_bounds ==
    StrDict("flow_mol_comp" :>
             Tuple(<<PyInt(0), PyInt(100), PyInt(1000), UDiv(pyunits_mol, pyunits_s)>>) @@
            "temperature" :>
             Tuple(<<PyFloat(27315, 2, 0), PyInt(300), PyInt(1000), pyunits_K>>) @@
            "pressure" :>
             Tuple(<<PyFloat(5, 0, 4), PyFloat(1, 0, 5), PyFloat(1, 0, 6), pyunits_Pa>>))

pressure_ref == Tuple(<<PyInt(101325), pyunits_Pa>>)

\* Mutation: the reference temperature is given in degrees Celsius.
temperature_ref_celsius == Tuple(<<PyInt(25), pyunits_K>>)

temperature_ref == Tuple(<<PyInt(300), pyunits_K>>)

\* Mutation: a pair names a phase the registry does not hold.
phases_in_equilibrium_typo == List(<<Tuple(<<Str("Vap"), Str("Liquid")>>)>>)

phases_in_equilibrium == List(<<Tuple(<<Str("Vap"), Str("Liq")>>)>>)

phase_equilibrium_state == Dict(Tuple(<<Str("Vap"), Str("Liq")>>) :> smooth_VLE)

\* The value the assignment `configuration = {...}` builds.
ConfigurationLiteral ==
    StrDict("components" :> components @@
            "phases" :> phases @@
            "base_units" :> base_units @@
            "state_definition" :> FpcTP @@
            "state_bounds" :> state_bounds @@
            "pressure_ref" :> pressure_ref @@
            "temperature_ref" :> temperature_ref @@
            "phases_in_equilibrium" :> phases_in_equilibrium @@
            "phase_equilibrium_state" :> phase_equilibrium_state @@
            "bubble_dew_method" :> IdealBubbleDew)

(***************************************************************************)
(* Subscripting                                                            *)
(***************************************************************************)
KeyError == [t |-> "KeyError"]

IndexError == [t |-> "IndexError"]

TypeError == [t |-> "TypeError"]

NameError == [t |-> "NameError"]

\* An exception raised in place of a value.
IsError(v) == v.t \in {"KeyError", "IndexError", "TypeError", "NameError"}

IsNumber(v) == v.t \in {"int", "float"}

\* The decimal m * 10^e with the trailing zeros of m moved into e.
RECURSIVE Norm(_, _)
Norm(m, e) ==
    IF m = 0 THEN <<0, 0>>
    ELSE IF m % 10 = 0 THEN Norm(m \div 10, e + 1)
    ELSE <<m, e>>

\* Python's == on two numbers, whether int or float.
NumEq(a, b) == Norm(a.m, a.e) = Norm(b.m, b.e)

\* Python's == on two values: numbers by value, tuples and lists element
\* by element, anything else by identity of the value.
RECURSIVE PyEq(_, _)
PyEq(a, b) ==
    IF IsNumber(a) /\ IsNumber(b) THEN NumEq(a, b)
    ELSE IF a.t = b.t /\ a.t \in {"tuple", "list"}
    THEN /\ Len(a.elts) = Len(b.elts)
         /\ \A i \in DOMAIN a.elts : PyEq(a.elts[i], b.elts[i])
    ELSE a = b

\* Whether hash(k) succeeds: lists and dicts have no hash, a tuple has one
\* when its elements do.
RECURSIVE Hashable(_)
Hashable(k) ==
    IF k.t \in {"list", "dict"} THEN FALSE
    ELSE IF k.t = "tuple" THEN \A i \in DOMAIN k.elts : Hashable(k.elts[i])
    ELSE TRUE

\* The characters the strings of the configuration are made of.
OneChar ==
    {"1", "2", "3", "4", "5", "A", "B", "C", "D", "L", "V", "_",
     "a", "b", "c", "d", "e", "f", "g", "h", "i", "l", "m", "n",
     "o", "p", "q", "r", "s", "t", "u", "v", "w", "y", "z"}

\* The characters of a string of the configuration, in order.
Chars(s) ==
    CASE s \in OneChar -> <<s>>
      [] s = "components" ->
           <<"c", "o", "m", "p", "o", "n", "e", "n", "t", "s">>
      [] s = "phases" ->
           <<"p", "h", "a", "s", "e", "s">>
      [] s = "base_units" ->
           <<"b", "a", "s", "e", "_", "u", "n", "i", "t", "s">>
      [] s = "state_definition" ->
           <<"s", "t", "a", "t", "e", "_", "d", "e", "f", "i", "n", "i", "t", "i", "o", "n">>
      [] s = "state_bounds" ->
           <<"s", "t", "a", "t", "e", "_", "b", "o", "u", "n", "d", "s">>
      [] s = "pressure_ref" ->
           <<"p", "r", "e", "s", "s", "u", "r", "e", "_", "r", "e", "f">>
      [] s = "temperature_ref" ->
           <<"t", "e", "m", "p", "e", "r", "a", "t", "u", "r", "e", "_", "r", "e", "f">>
      [] s = "phases_in_equilibrium" ->
           <<"p", "h", "a", "s", "e", "s", "_", "i", "n", "_", "e", "q", "u", "i", "l", "i", "b", "r", "i", "u", "m">>
      [] s = "phase_equilibrium_state" ->
           <<"p", "h", "a", "s", "e", "_", "e", "q", "u", "i", "l", "i", "b", "r", "i", "u", "m", "_", "s", "t", "a", "t", "e">>
      [] s = "bubble_dew_method" ->
           <<"b", "u", "b", "b", "l", "e", "_", "d", "e", "w", "_", "m", "e", "t", "h", "o", "d">>
      [] s = "benzene" ->
           <<"b", "e", "n", "z", "e", "n", "e">>
      [] s = "toluene" ->
           <<"t", "o", "l", "u", "e", "n", "e">>
      [] s = "hydrogen" ->
           <<"h", "y", "d", "r", "o", "g", "e", "n">>
      [] s = "methane" ->
           <<"m", "e", "t", "h", "a", "n", "e">>
      [] s = "Liq" ->
           <<"L", "i", "q">>
      [] s = "Vap" ->
           <<"V", "a", "p">>
      [] s = "time" ->
           <<"t", "i", "m", "e">>
      [] s = "length" ->
           <<"l", "e", "n", "g", "t", "h">>
      [] s = "mass" ->
           <<"m", "a", "s", "s">>
      [] s = "amount" ->
           <<"a", "m", "o", "u", "n", "t">>
      [] s = "temperature" ->
           <<"t", "e", "m", "p", "e", "r", "a", "t", "u", "r", "e">>
      [] s = "flow_mol_comp" ->
           <<"f", "l", "o", "w", "_", "m", "o", "l", "_", "c", "o", "m", "p">>
      [] s = "pressure" ->
           <<"p", "r", "e", "s", "s", "u", "r", "e">>
      [] s = "type" ->
           <<"t", "y", "p", "e">>
      [] s = "dens_mol_liq_comp" ->
           <<"d", "e", "n", "s", "_", "m", "o", "l", "_", "l", "i", "q", "_", "c", "o", "m", "p">>
      [] s = "enth_mol_liq_comp" ->
           <<"e", "n", "t", "h", "_", "m", "o", "l", "_", "l", "i", "q", "_", "c", "o", "m", "p">>
      [] s = "enth_mol_ig_comp" ->
           <<"e", "n", "t", "h", "_", "m", "o", "l", "_", "i", "g", "_", "c", "o", "m", "p">>
      [] s = "pressure_sat_comp" ->
           <<"p", "r", "e", "s", "s", "u", "r", "e", "_", "s", "a", "t", "_", "c", "o", "m", "p">>
      [] s = "phase_equilibrium_form" ->
           <<"p", "h", "a", "s", "e", "_", "e", "q", "u", "i", "l", "i", "b", "r", "i", "u", "m", "_", "f", "o", "r", "m">>
      [] s = "parameter_data" ->
           <<"p", "a", "r", "a", "m", "e", "t", "e", "r", "_", "d", "a", "t", "a">>
      [] s = "valid_phase_types" ->
           <<"v", "a", "l", "i", "d", "_", "p", "h", "a", "s", "e", "_", "t", "y", "p", "e", "s">>
      [] s = "equation_of_state" ->
           <<"e", "q", "u", "a", "t", "i", "o", "n", "_", "o", "f", "_", "s", "t", "a", "t", "e">>
      [] s = "mw" ->
           <<"m", "w">>
      [] s = "pressure_crit" ->
           <<"p", "r", "e", "s", "s", "u", "r", "e", "_", "c", "r", "i", "t">>
      [] s = "temperature_crit" ->
           <<"t", "e", "m", "p", "e", "r", "a", "t", "u", "r", "e", "_", "c", "r", "i", "t">>
      [] s = "dens_mol_liq_comp_coeff" ->
           <<"d", "e", "n", "s", "_", "m", "o", "l", "_", "l", "i", "q", "_", "c", "o", "m", "p", "_", "c", "o", "e", "f", "f">>
      [] s = "cp_mol_ig_comp_coeff" ->
           <<"c", "p", "_", "m", "o", "l", "_", "i", "g", "_", "c", "o", "m", "p", "_", "c", "o", "e", "f", "f">>
      [] s = "cp_mol_liq_comp_coeff" ->
           <<"c", "p", "_", "m", "o", "l", "_", "l", "i", "q", "_", "c", "o", "m", "p", "_", "c", "o", "e", "f", "f">>
      [] s = "enth_mol_form_liq_comp_ref" ->
           <<"e", "n", "t", "h", "_", "m", "o", "l", "_", "f", "o", "r", "m", "_", "l", "i", "q", "_", "c", "o", "m", "p", "_", "r", "e", "f">>
      [] s = "enth_mol_form_vap_comp_ref" ->
           <<"e", "n", "t", "h", "_", "m", "o", "l", "_", "f", "o", "r", "m", "_", "v", "a", "p", "_", "c", "o", "m", "p", "_", "r", "e", "f">>
      [] s = "pressure_sat_comp_coeff" ->
           <<"p", "r", "e", "s", "s", "u", "r", "e", "_", "s", "a", "t", "_", "c", "o", "m", "p", "_", "c", "o", "e", "f", "f">>

\* seq[k] for a sequence of n elements: k must be an int, -n..-1 count from
\* the end, and an index outside -n..n-1 raises IndexError.
SeqItem(elts, k) ==
    LET n == Len(elts)
    IN  IF k.t # "int" THEN TypeError
        ELSE IF 0 <= k.m /\ k.m < n THEN elts[k.m + 1]
        ELSE IF -n <= k.m /\ k.m < 0 THEN elts[n + k.m + 1]
        ELSE IndexError

\* v[k].  A dict gives the item whose key equals k, KeyError when there is
\* none and TypeError when k has no hash; a tuple, list or str gives the
\* element at index k; no other value of the configuration (a number, None,
\* a unit, an imported class, module or function) can be subscripted.  An
\* exception raised earlier in the expression propagates.
GetItem(v, k) ==
    IF IsError(v) THEN v
    ELSE IF v.t = "unbound" THEN NameError
    ELSE IF v.t = "dict"
    THEN IF ~Hashable(k) THEN TypeError
         ELSE IF \E x \in DOMAIN v.items : PyEq(x, k)
         THEN v.items[CHOOSE x \in DOMAIN v.items : PyEq(x, k)]
         ELSE KeyError
    ELSE IF v.t \in {"tuple", "list"} THEN SeqItem(v.elts, k)
    ELSE IF v.t = "str"
    THEN SeqItem([i \in DOMAIN Chars(v.s) |-> Str(Chars(v.s)[i])], k)
    ELSE TypeError

\* v[p[1]][p[2]]...
RECURSIVE GetPath(_, _)
GetPath(v, p) == IF p = <<>> THEN v ELSE GetPath(GetItem(v, Head(p)), Tail(p))

\* The keys of a dict.
Keys(d) == DOMAIN d.items

\* The keys of a dict of string keys, as bare strings.
StrKeys(d) == {k.s : k \in Keys(d)}

(***************************************************************************)
(* The module body, statement by statement, and then a consumer reading    *)
(* the dictionary                                                          *)
(***************************************************************************)
\* The longest path along which a consumer goes on subscripting a string.
MaxPath == 4

Init ==
    /\ pc = "imports"
    /\ configuration = Unbound
    /\ path = <<>>
    /\ cursor = Unbound

\* import logging ... import idaes...NIST as NIST
ImportLibraries ==
    /\ pc = "imports"
    /\ pc' = "logger"
    /\ UNCHANGED <<configuration, path, cursor>>

\* _log = logging.getLogger(__name__)
SetUpLogger ==
    /\ pc = "logger"
    /\ pc' = "configuration"
    /\ UNCHANGED <<configuration, path, cursor>>

\* configuration = {...}
BuildConfiguration ==
    /\ pc = "configuration"
    /\ configuration' = ConfigurationLiteral
    /\ pc' = "loaded"
    /\ UNCHANGED <<path, cursor>>

\* A consumer evaluates the name `configuration`.
ReadConfiguration ==
    /\ pc = "loaded"
    /\ cursor' = configuration
    /\ path' = <<>>
    /\ UNCHANGED <<pc, configuration>>

\* Mutation: subscripting the configuration removes the item (pop).
SubscriptPop(k) ==
    /\ cursor' = GetItem(cursor, k)
    /\ path' = Append(path, k)
    /\ configuration' =
          IF path = <<>>
          THEN Dict([x \in Keys(configuration) \ {k} |-> configuration.items[x]])
          ELSE configuration
    /\ UNCHANGED pc

\* A consumer subscripts the dict it holds with one of its keys.
Subscript(k) ==
    /\ cursor' = GetItem(cursor, k)
    /\ path' = Append(path, k)
    /\ UNCHANGED <<pc, configuration>>

SubscriptDict ==
    /\ pc = "loaded"
    /\ cursor.t = "dict"
    /\ \E k \in Keys(cursor) : Subscript(k)

\* A consumer takes an element of the tuple or list it holds, counting from
\* the start or, with a negative index, from the end.
SubscriptSequence ==
    /\ pc = "loaded"
    /\ cursor.t \in {"tuple", "list"}
    /\ \E i \in -Len(cursor.elts)..(Len(cursor.elts) - 1) : Subscript(PyInt(i))

\* A consumer takes a character of the string it holds.
SubscriptStr ==
    /\ pc = "loaded"
    /\ cursor.t = "str"
    /\ Len(path) < MaxPath
    /\ \E i \in -Len(Chars(cursor.s))..(Len(Chars(cursor.s)) - 1) : Subscript(PyInt(i))

\* Keys and indices a consumer may try that the value may not have.
Probes ==
    {Str("water"), PyInt(0), PyInt(4), PyInt(-5), PyFloat(1, 0, 0),
     List(<<Str("Vap"), Str("Liq")>>)}

\* A consumer's subscript raises: an absent key, an index out of range, a
\* key or index of the wrong type, or a value that cannot be subscripted.
SubscriptRaises ==
    /\ pc = "loaded"
    /\ cursor # Unbound
    /\ ~IsError(cursor)
    /\ \E k \in Probes : IsError(GetItem(cursor, k)) /\ Subscript(k)

Next ==
    \/ ImportLibraries
    \/ SetUpLogger
    \/ BuildConfiguration
    \/ ReadConfiguration
    \/ SubscriptDict
    \/ SubscriptSequence
    \/ SubscriptStr
    \/ SubscriptRaises

Spec == Init /\ [][Next]_vars

(***************************************************************************)
(* Vocabulary of the properties                                            *)
(***************************************************************************)
RECURSIVE Pow10(_)
Pow10(n) == IF n <= 0 THEN 1 ELSE 10 * Pow10(n - 1)

\* Python's <= on two numbers, whether int or float.
NumLeq(a, b) ==
    LET e0 == IF a.e < b.e THEN a.e ELSE b.e
    IN  a.m * Pow10(a.e - e0) <= b.m * Pow10(b.e - e0)

NumLt(a, b) == NumLeq(a, b) /\ ~NumEq(a, b)

\* The number n * 10^e.
Dec(n, e) == [m |-> n, e |-> e]

\* Dimensions as exponents of mass, length, time, amount, temperature.
Dim(ma, le, ti, am, te) ==
    [x \in BaseDims |->
        CASE x = "mass" -> ma
          [] x = "length" -> le
          [] x = "time" -> ti
          [] x = "amount" -> am
          [] x = "temperature" -> te]

HasDim(v, d) == v.t = "unit" /\ v.dim = d

EnergyPerAmountPerK(k) == Dim(1, 2, -2, -1, -k)

EnergyPerAmount == Dim(1, 2, -2, -1, 0)

MassPerAmount == Dim(1, 0, 0, -1, 0)

PressureDim == Dim(1, -1, -2, 0, 0)

TemperatureDim == Dim(0, 0, 0, 0, 1)

AmountPerTime == Dim(0, 0, -1, 1, 0)

Loaded == pc = "loaded"

Species == StrKeys(GetItem(configuration, Str("components")))

SpeciesEntry(sp) == GetPath(configuration, <<Str("components"), Str(sp)>>)

ParameterData(sp) == GetItem(SpeciesEntry(sp), Str("parameter_data"))

PhaseRegistry == GetItem(configuration, Str("phases"))

\* The correlation forms and the coefficient set each requires, as the
\* property C1 states them.
CorrelationForms ==
    { [prop |-> "enth_mol_ig_comp", form |-> "RPP",
       coeff |-> "cp_mol_ig_comp_coeff", keys |-> {"A", "B", "C", "D"}],
      [prop |-> "dens_mol_liq_comp", form |-> "Perrys",
       coeff |-> "dens_mol_liq_comp_coeff", keys |-> {"1", "2", "3", "4"}],
      [prop |-> "enth_mol_liq_comp", form |-> "Perrys",
       coeff |-> "cp_mol_liq_comp_coeff", keys |-> {"1", "2", "3", "4", "5"}],
      [prop |-> "pressure_sat_comp", form |-> "NIST",
       coeff |-> "pressure_sat_comp_coeff", keys |-> {"A", "B", "C"}] }

Declares(sp, r) ==
    /\ Str(r.prop) \in Keys(SpeciesEntry(sp))
    /\ GetItem(SpeciesEntry(sp), Str(r.prop)) = Obj(r.form)

\* The phase type of a phase class, as the consuming framework names them.
PhaseTypeOf(class) ==
    CASE class = Obj("LiquidPhase") -> Obj("PhaseType.liquidPhase")
      [] class = Obj("VaporPhase") -> Obj("PhaseType.vaporPhase")
      [] class = Obj("SolidPhase") -> Obj("PhaseType.solidPhase")
      [] OTHER -> None

Restricted(sp) == Str("valid_phase_types") \in Keys(SpeciesEntry(sp))

\* valid_phase_types holds one phase type or a list of them.
ValidTypes(sp) ==
    LET v == GetItem(SpeciesEntry(sp), Str("valid_phase_types"))
    IN  IF v.t = "list" THEN {v.elts[i] : i \in DOMAIN v.elts} ELSE {v}

\* The declared phases a species may appear in.
ValidPhases(sp) ==
    IF Restricted(sp)
    THEN {p \in StrKeys(PhaseRegistry) :
            PhaseTypeOf(GetPath(PhaseRegistry, <<Str(p), Str("type")>>)) \in ValidTypes(sp)}
    ELSE StrKeys(PhaseRegistry)

\* A key or list element naming a pair of phases: two distinct declared phases.
IsPhasePair(v) ==
    /\ v.t = "tuple"
    /\ Len(v.elts) = 2
    /\ \A i \in 1..2 : v.elts[i] \in Keys(PhaseRegistry)
    /\ v.elts[1] # v.elts[2]

EquilibriumPairs ==
    LET l == GetItem(configuration, Str("phases_in_equilibrium"))
    IN  {l.elts[i] : i \in DOMAIN l.elts}

(***************************************************************************)
(* Properties                                                              *)
(***************************************************************************)

\* C1: once the configuration is built, every species supplies, for each
\* correlation it declares (RPP ideal-gas enthalpy, Perrys liquid density,
\* Perrys liquid enthalpy, NIST saturation pressure), a coefficient set with
\* exactly the keys that form requires; every correlation it declares is one
\* of these forms; and it supplies no coefficient set for a correlation it
\* does not declare.
C1_CoefficientKeysExact ==
    Loaded =>
      \A sp \in Species :
        /\ \A r \in CorrelationForms :
             Str(r.prop) \in Keys(SpeciesEntry(sp)) =>
               /\ Declares(sp, r)
               /\ Str(r.coeff) \in Keys(ParameterData(sp))
               /\ StrKeys(GetItem(ParameterData(sp), Str(r.coeff))) = r.keys
        /\ \A r \in CorrelationForms :
             Str(r.coeff) \in Keys(ParameterData(sp)) => Declares(sp, r)

C1_Witness ==
    /\ Loaded
    /\ path = <<Str("components"), Str("benzene"), Str("parameter_data"),
                Str("cp_mol_liq_comp_coeff")>>
    /\ StrKeys(cursor) = {"1", "2", "3", "4", "5"}

\* C2: every pair of phases_in_equilibrium, every key of
\* phase_equilibrium_state and every key of a species'
\* phase_equilibrium_form names two distinct phases, both keys of the phases
\* registry, which is {Liq, Vap}.
C2_EquilibriumPairsDeclared ==
    Loaded =>
      /\ StrKeys(PhaseRegistry) = {"Liq", "Vap"}
      /\ \A pr \in EquilibriumPairs : IsPhasePair(pr)
      /\ \A pr \in Keys(GetItem(configuration, Str("phase_equilibrium_state"))) :
           IsPhasePair(pr)
      /\ \A sp \in Species :
           Str("phase_equilibrium_form") \in Keys(SpeciesEntry(sp)) =>
             \A pr \in Keys(GetItem(SpeciesEntry(sp), Str("phase_equilibrium_form"))) :
               IsPhasePair(pr)

C2_Witness ==
    /\ Loaded
    /\ path = <<Str("phases_in_equilibrium"), PyInt(0)>>
    /\ cursor = Tuple(<<Str("Vap"), Str("Liq")>>)

\* C3: the species that restrict their phases are hydrogen and methane; every
\* phase type in a restriction is the type of some declared phase, so the
\* declared phases the species may appear in are a non-empty subset of the
\* registry; benzene and toluene, unrestricted, are valid in every declared
\* phase.
C3_ValidPhasesDeclared ==
    Loaded =>
      /\ {sp \in Species : Restricted(sp)} = {"hydrogen", "methane"}
      /\ \A sp \in Species :
           IF Restricted(sp)
           THEN /\ \A ty \in ValidTypes(sp) :
                     \E p \in StrKeys(PhaseRegistry) :
                       PhaseTypeOf(GetPath(PhaseRegistry, <<Str(p), Str("type")>>)) = ty
                /\ ValidPhases(sp) # {}
                /\ ValidPhases(sp) \subseteq StrKeys(PhaseRegistry)
                /\ ValidTypes(sp) = {Obj("PhaseType.vaporPhase")}
           ELSE ValidPhases(sp) = StrKeys(PhaseRegistry)

C3_Witness ==
    /\ Loaded
    /\ path = <<Str("components"), Str("hydrogen"), Str("valid_phase_types")>>
    /\ cursor = Obj("PhaseType.vaporPhase")

\* C5: the configuration is constructed exactly once, by the assignment that
\* ends the module body, and no later step changes any part of it: a step
\* changes `configuration` only if it is that assignment, and from then on
\* the value stays the one the assignment built.
C5_Immutable ==
    [][/\ configuration' # configuration =>
            (pc = "configuration" /\ pc' = "loaded" /\ configuration = Unbound)
       /\ Loaded => (pc' = "loaded" /\ configuration' = configuration)]_vars

C5_Witness ==
    /\ Loaded
    /\ path = <<Str("components"), Str("toluene"), Str("parameter_data"),
                Str("pressure_sat_comp_coeff"), Str("C"), PyInt(0)>>
    /\ cursor = PyFloat(394, 3, 0)
    /\ configuration = ConfigurationLiteral

\* C6: the configuration has the top-level keys components, phases,
\* base_units, state_definition, state_bounds, pressure_ref, temperature_ref
\* and phases_in_equilibrium; components holds exactly benzene, toluene,
\* hydrogen and methane; phases holds exactly Liq (a liquid phase, ideal
\* equation of state) and Vap (a vapor phase, ideal equation of state).
C6_Schema ==
    Loaded =>
      /\ {"components", "phases", "base_units", "state_definition", "state_bounds",
          "pressure_ref", "temperature_ref", "phases_in_equilibrium"}
             \subseteq StrKeys(configuration)
      /\ Species = {"benzene", "toluene", "hydrogen", "methane"}
      /\ StrKeys(PhaseRegistry) = {"Liq", "Vap"}
      /\ GetPath(PhaseRegistry, <<Str("Liq"), Str("type")>>) = Obj("LiquidPhase")
      /\ GetPath(PhaseRegistry, <<Str("Vap"), Str("type")>>) = Obj("VaporPhase")
      /\ \A p \in {"Liq", "Vap"} :
           GetPath(PhaseRegistry, <<Str(p), Str("equation_of_state")>>) = Obj("Ideal")

C6_Witness ==
    /\ Loaded
    /\ path = <<Str("phases"), Str("Vap"), Str("equation_of_state")>>
    /\ cursor = Obj("Ideal")

\* C7: benzene's ideal-gas heat-capacity coefficients are A = -33.92,
\* B = 0.4739, C = -0.0003017, D = 0.0000000713, in J/mol/K^n with n = 1, 2,
\* 3, 4 for A, B, C, D, and benzene's critical pressure is 4 890 000 Pa.
BenzeneCp(k) ==
    GetPath(configuration, <<Str("components"), Str("benzene"), Str("parameter_data"),
                             Str("cp_mol_ig_comp_coeff"), Str(k)>>)

BenzenePc ==
    GetPath(configuration, <<Str("components"), Str("benzene"), Str("parameter_data"),
                             Str("pressure_crit")>>)

IsQuantity(v, n, d) ==
    /\ v.t = "tuple"
    /\ Len(v.elts) = 2
    /\ IsNumber(v.elts[1])
    /\ NumEq(v.elts[1], n)
    /\ HasDim(v.elts[2], d)
    /\ v.elts[2].scale = 0

C7_BenzeneLookup ==
    Loaded =>
      /\ IsQuantity(BenzeneCp("A"), Dec(-3392, -2), EnergyPerAmountPerK(1))
      /\ IsQuantity(BenzeneCp("B"), Dec(4739, -4), EnergyPerAmountPerK(2))
      /\ IsQuantity(BenzeneCp("C"), Dec(-3017, -7), EnergyPerAmountPerK(3))
      /\ IsQuantity(BenzeneCp("D"), Dec(713, -10), EnergyPerAmountPerK(4))
      /\ IsQuantity(BenzenePc, Dec(4890000, 0), PressureDim)

C7_Witness ==
    /\ Loaded
    /\ path = <<Str("components"), Str("benzene"), Str("parameter_data"),
                Str("pressure_crit"), PyInt(0)>>
    /\ IsNumber(cursor)
    /\ NumEq(cursor, Dec(4890000, 0))

\* C8: every declared unit has the dimension of its quantity: the k-th
\* coefficient of cp_mol_ig_comp_coeff (A..D) and of cp_mol_liq_comp_coeff
\* (1..5) is energy per amount per K^k; mw is mass per amount; pressure_crit
\* and pressure_ref are pressures; temperature_crit and temperature_ref are
\* temperatures; every enthalpy of formation is energy per amount; and the
\* state bounds carry amount per time, temperature and pressure.
UnitOf(v) == v.elts[Len(v.elts)]

CpIgOrder == <<"A", "B", "C", "D">>

CpLiqOrder == <<"1", "2", "3", "4", "5">>

CoeffUnitsOk(pd, coeff, order) ==
    Str(coeff) \in Keys(pd) =>
      \A k \in DOMAIN order :
        Str(order[k]) \in Keys(GetItem(pd, Str(coeff))) =>
          HasDim(UnitOf(GetPath(pd, <<Str(coeff), Str(order[k])>>)), EnergyPerAmountPerK(k))

ParamUnitOk(pd, name, d) ==
    Str(name) \in Keys(pd) => HasDim(UnitOf(GetItem(pd, Str(name))), d)

C8_UnitsConsistent ==
    Loaded =>
      /\ \A sp \in Species :
           LET pd == ParameterData(sp)
           IN  /\ CoeffUnitsOk(pd, "cp_mol_ig_comp_coeff", CpIgOrder)
               /\ CoeffUnitsOk(pd, "cp_mol_liq_comp_coeff", CpLiqOrder)
               /\ ParamUnitOk(pd, "mw", MassPerAmount)
               /\ ParamUnitOk(pd, "pressure_crit", PressureDim)
               /\ ParamUnitOk(pd, "temperature_crit", TemperatureDim)
               /\ ParamUnitOk(pd, "enth_mol_form_liq_comp_ref", EnergyPerAmount)
               /\ ParamUnitOk(pd, "enth_mol_form_vap_comp_ref", EnergyPerAmount)
      /\ ParamUnitOk(configuration, "pressure_ref", PressureDim)
      /\ ParamUnitOk(configuration, "temperature_ref", TemperatureDim)
      /\ LET sb == GetItem(configuration, Str("state_bounds"))
         IN  /\ StrKeys(sb) = {"flow_mol_comp", "temperature", "pressure"}
             /\ ParamUnitOk(sb, "flow_mol_comp", AmountPerTime)
             /\ ParamUnitOk(sb, "temperature", TemperatureDim)
             /\ ParamUnitOk(sb, "pressure", PressureDim)

C8_Witness ==
    /\ Loaded
    /\ path = <<Str("components"), Str("toluene"), Str("parameter_data"),
                Str("cp_mol_liq_comp_coeff"), Str("5"), PyInt(1)>>
    /\ HasDim(cursor, EnergyPerAmountPerK(5))
    /\ cursor.scale = -3

\* C9: each state bound is (lower, nominal, upper, unit) with lower <=
\* nominal <= upper and lower < upper, and the reference state lies inside
\* the bounds: temperature_ref is 300 K within [273.15, 1000] K and
\* pressure_ref is 101325 Pa within [50000, 1000000] Pa.
Bound(name) == GetPath(configuration, <<Str("state_bounds"), Str(name)>>)

Within(ref, bound) ==
    /\ ref.elts[2] = bound.elts[4]
    /\ NumLeq(bound.elts[1], ref.elts[1])
    /\ NumLeq(ref.elts[1], bound.elts[3])

C9_BoundsOrdered ==
    Loaded =>
      /\ \A name \in StrKeys(GetItem(configuration, Str("state_bounds"))) :
           LET b == Bound(name).elts
           IN  /\ Len(b) = 4
               /\ \A i \in 1..3 : IsNumber(b[i])
               /\ NumLeq(b[1], b[2])
               /\ NumLeq(b[2], b[3])
               /\ NumLt(b[1], b[3])
      /\ NumEq(GetItem(configuration, Str("temperature_ref")).elts[1], Dec(300, 0))
      /\ NumEq(Bound("temperature").elts[1], Dec(27315, -2))
      /\ NumEq(Bound("temperature").elts[3], Dec(1000, 0))
      /\ Within(GetItem(configuration, Str("temperature_ref")), Bound("temperature"))
      /\ NumEq(GetItem(configuration, Str("pressure_ref")).elts[1], Dec(101325, 0))
      /\ NumEq(Bound("pressure").elts[1], Dec(50000, 0))
      /\ NumEq(Bound("pressure").elts[3], Dec(1000000, 0))
      /\ Within(GetItem(configuration, Str("pressure_ref")), Bound("pressure"))

C9_Witness ==
    /\ Loaded
    /\ path = <<Str("state_bounds"), Str("temperature"), PyInt(0)>>
    /\ IsNumber(cursor)
    /\ NumLt(cursor, Dec(300, 0))
    /\ NumLt(Dec(273, 0), cursor)

\* C10: phase_equilibrium_state has an entry for every pair of
\* phases_in_equilibrium; a species declares phase_equilibrium_form for a
\* pair exactly when it is valid in both phases of the pair; a species valid
\* in the liquid phase declares liquid density, liquid enthalpy and
\* saturation pressure correlations and enth_mol_form_liq_comp_ref, and a
\* vapor-only species none of them; every species is valid in the vapor
\* phase and declares the ideal-gas enthalpy correlation,
\* enth_mol_form_vap_comp_ref, mw, pressure_crit and temperature_crit.
LiquidProps == {"dens_mol_liq_comp", "enth_mol_liq_comp", "pressure_sat_comp"}

DeclaresFormFor(sp, pr) ==
    /\ Str("phase_equilibrium_form") \in Keys(SpeciesEntry(sp))
    /\ pr \in Keys(GetItem(SpeciesEntry(sp), Str("phase_equilibrium_form")))

C10_CompleteForValidPhases ==
    Loaded =>
      /\ \A pr \in EquilibriumPairs :
           /\ pr \in Keys(GetItem(configuration, Str("phase_equilibrium_state")))
           /\ \A sp \in Species :
                DeclaresFormFor(sp, pr) <=>
                  \A i \in DOMAIN pr.elts : pr.elts[i].s \in ValidPhases(sp)
      /\ \A sp \in Species :
           /\ "Liq" \in ValidPhases(sp) =>
                /\ \A q \in LiquidProps : Str(q) \in Keys(SpeciesEntry(sp))
                /\ Str("enth_mol_form_liq_comp_ref") \in Keys(ParameterData(sp))
           /\ ValidPhases(sp) = {"Vap"} =>
                /\ \A q \in LiquidProps : Str(q) \notin Keys(SpeciesEntry(sp))
                /\ Str("enth_mol_form_liq_comp_ref") \notin Keys(ParameterData(sp))
           /\ "Vap" \in ValidPhases(sp)
           /\ Str("enth_mol_ig_comp") \in Keys(SpeciesEntry(sp))
           /\ {"enth_mol_form_vap_comp_ref", "mw", "pressure_crit", "temperature_crit"}
                 \subseteq StrKeys(ParameterData(sp))

C10_Witness ==
    /\ Loaded
    /\ path = <<Str("components"), Str("toluene"), Str("phase_equilibrium_form"),
                Tuple(<<Str("Vap"), Str("Liq")>>)>>
    /\ cursor = Obj("fugacity")
    /\ "Liq" \in ValidPhases("toluene")
    /\ "Liq" \notin ValidPhases("methane")

====
